---- MODULE Spec2Model ----
(***************************************************************************)
(* CognitiveTrail Navigator: the browser-history extractor                 *)
(* (src/src/browser_history.py).  One call of fetch_browser_history is      *)
(* modelled as a state machine over a fixed host (files, environment        *)
(* variables, time zone); the per-source readers advance in the steps      *)
(* mkstemp / copy2 / query / finally so that the life of the temporary     *)
(* copy is visible.                                                        *)
(*                                                                         *)
(* Time.  A naive datetime is an integer: ticks since 1970-01-01T00:00 on  *)
(* the naive (zone-less) time line.  The real unit is the microsecond; the *)
(* model scales the numbers down so that they fit TLC's integers, keeping  *)
(* the relations that matter: Chromium ticks lie above 2^MantBits (real:   *)
(* 1.3e16 > 2^53, so a double cannot hold every tick), Firefox ticks lie   *)
(* below it (real: 1.7e15 < 2^53).                                         *)
(***************************************************************************)
EXTENDS Integers, Sequences, FiniteSets, TLC

\* ------------------------------------------------------------------------
\* Generic helpers
\* ------------------------------------------------------------------------
None == <<>>                      \* Python None for an optional datetime
NoStr == "None"                   \* Python None for an optional string

Some(x) == <<x>>

Range(s) == {s[i] : i \in 1..Len(s)}

Pow2(n) == 2 ^ n

Min(S) == CHOOSE x \in S : \A y \in S : x <= y

\* All orderings (as sequences without repetition) of the finite set S.
Orderings(S) ==
    {f \in [1..Cardinality(S) -> S] : \A i, j \in 1..Cardinality(S) : i # j => f[i] # f[j]}

\* s[:n] for n >= 0.
Take(s, n) == IF n >= Len(s) THEN s ELSE SubSeq(s, 1, n)

\* Python slice s[:n] for any integer n (negative n counts from the end).
SliceTo(s, n) ==
    IF n >= 0 THEN Take(s, n)
    ELSE IF Len(s) + n <= 0 THEN <<>> ELSE SubSeq(s, 1, Len(s) + n)

IsPrefix(p, s) == Len(p) <= Len(s) /\ SubSeq(s, 1, Len(p)) = p

\* ------------------------------------------------------------------------
\* Binary floating point with a MantBits-bit significand, round to nearest,
\* ties to even.  A float is a pair <<num, den>> (den a power of two).
\* Only non-negative values occur.
\* ------------------------------------------------------------------------
MantBits == 6       \* significand width (53 in an IEEE double), scaled
UsPerSec == 10      \* ticks per second (1_000_000), scaled
ExpSpan == 12       \* exponents searched when normalising a float

\* p/q rounded to the nearest integer, ties to even (p >= 0, q > 0).
RoundHalfEven(p, q) ==
    LET fl == p \div q
        r2 == 2 * (p % q)
    IN  IF r2 < q THEN fl
        ELSE IF r2 > q THEN fl + 1
        ELSE IF fl % 2 = 0 THEN fl ELSE fl + 1

\* The float nearest to the rational p/q.
RN(p, q) ==
    IF p = 0 THEN <<0, 1>>
    ELSE LET e == CHOOSE x \in (0 - ExpSpan)..ExpSpan :
                    IF x >= 0
                    THEN /\ Pow2(MantBits - 1) * q * Pow2(x) <= p
                         /\ p < Pow2(MantBits) * q * Pow2(x)
                    ELSE /\ Pow2(MantBits - 1) * q <= p * Pow2(0 - x)
                         /\ p * Pow2(0 - x) < Pow2(MantBits) * q
         IN  IF e >= 0
             THEN <<RoundHalfEven(p, q * Pow2(e)) * Pow2(e), 1>>
             ELSE <<RoundHalfEven(p * Pow2(0 - e), q), Pow2(0 - e)>>

FDivInt(a, b) == RN(a, b)                     \* int / int  (true division)
FMulInt(x, k) == RN(x[1] * k, x[2])           \* float * int
FTrunc(x) == x[1] \div x[2]                   \* int(float), x >= 0
FFrac(x) == <<x[1] % x[2], x[2]>>             \* math.modf: fractional part

FAddInt(n, x) == RN(n * x[2] + x[1], x[2])    \* int + float

\* ------------------------------------------------------------------------
\* Timestamp conversions (browser_history.py:255-273)
\* ------------------------------------------------------------------------
EpochGap1601 == 60  \* ticks from 1601-01-01 to 1970-01-01 (1.16e16), scaled

epoch_start == 0 - EpochGap1601               \* dt.datetime(1601, 1, 1)

\* timedelta.total_seconds(): the exact tick count divided by 10**6.
total_seconds(delta) == FDivInt(delta, UsPerSec)

_chromium_ts_to_dt(value) == epoch_start + value

_chromium_dt_to_ts(value) ==
    LET delta == value - epoch_start
    IN  FTrunc(FMulInt(total_seconds(delta), UsPerSec))

\* datetime.utcfromtimestamp(x): whole seconds plus the fraction scaled to
\* ticks and rounded half-even.
utcfromtimestamp(x) ==
    LET us == FMulInt(FFrac(x), UsPerSec)
    IN  FTrunc(x) * UsPerSec + RoundHalfEven(us[1], us[2])

_firefox_ts_to_dt(value) == utcfromtimestamp(FDivInt(value, UsPerSec))

\* datetime.timestamp() of a naive datetime: the value is read as local
\* time of the host (UTC offset tz, whole seconds), converted to seconds
\* since the Unix epoch, and the sub-second part is added as a float.
timestamp(value, tz) ==
    LET utc == value - tz
    IN  FAddInt(utc \div UsPerSec, FDivInt(utc % UsPerSec, UsPerSec))

_firefox_dt_to_ts(value, tz) == FTrunc(FMulInt(timestamp(value, tz), UsPerSec))

\* ------------------------------------------------------------------------
\* Search-query extraction (browser_history.py:276-282).  A URL is its
\* location (host first) and the name=value fields of its query string, in
\* order, as written (still encoded).  parse_qs decodes names and values, drops the
\* fields whose value is blank and groups the values by name.
\* ------------------------------------------------------------------------
\* urllib.parse.unquote_plus on the encoded strings used as inputs: '+' is a
\* space, %XX is the character with that code.
unquote_plus(s) ==
    CASE s = "%71" -> "q"
      [] s = "b+c" -> "b c"
      [] OTHER -> s

parse_qs(query) ==
    LET Kept(pair) == pair.v # ""
        kept == SelectSeq(query, Kept)
    IN  [key \in {unquote_plus(kept[i].k) : i \in 1..Len(kept)} |->
            LET Hit(pair) == unquote_plus(pair.k) = key
                hits == SelectSeq(kept, Hit)
            IN  [i \in 1..Len(hits) |-> unquote_plus(hits[i].v)]]

\* urllib.parse.urlparse raises ValueError on a URL whose host part opens a
\* bracket that it does not close ("Invalid IPv6 URL").
BadNetlocs == {"[::1"}

urlparse_raises(url) == url.loc[1] \in BadNetlocs

\* The URL is one that urlparse accepts.
_extract_query(url) ==
    LET qs == parse_qs(url.query)
    IN  IF "q" \in DOMAIN qs THEN qs["q"][1]
        ELSE IF "query" \in DOMAIN qs THEN qs["query"][1]
        ELSE IF "text" \in DOMAIN qs THEN qs["text"][1]
        ELSE NoStr

\* ------------------------------------------------------------------------
\* The host: paths are sequences of components; `files` maps every existing
\* file to its content; a directory exists when a file lies below it.
\* ------------------------------------------------------------------------
Home == <<"~">>
MntLocal == <<"/mnt/c/Users/Lenovo/AppData/Local">>
MntRoaming == <<"/mnt/c/Users/Lenovo/AppData/Roaming">>

exists(fs, path) == \E f \in DOMAIN fs : IsPrefix(path, f)

is_dir(fs, path) == \E f \in DOMAIN fs : IsPrefix(path, f) /\ Len(f) > Len(path)

\* Path.iterdir(): the entries of a directory, in the order the file system
\* lists them (`order`: a listing order of entry names).
iterdir(fs, base, order) ==
    LET Present(name) == exists(fs, base \o <<name>>)
        names == SelectSeq(order, Present)
    IN  [i \in 1..Len(names) |-> base \o <<names[i]>>]

_win_localappdata(environ) == environ.LOCALAPPDATA

_win_appdata(environ) == environ.APPDATA

\* KNOWN_HISTORY_PATHS (browser_history.py:27-50); entries built from an
\* unset environment variable are filtered out.
KNOWN_HISTORY_PATHS(environ, source) ==
    LET win == _win_localappdata(environ)
    IN  IF source = "chrome" THEN
            << Home \o <<".config", "google-chrome", "Default", "History">>,
               Home \o <<".config", "chromium", "Default", "History">> >>
            \o (IF win # None
                THEN << win[1] \o <<"Google", "Chrome", "User Data", "Default", "History">> >>
                ELSE <<>>)
            \o << MntLocal \o <<"Google", "Chrome", "User Data", "Default", "History">>,
                  MntLocal \o <<"Google", "Chrome", "User Data", "Profile 1", "History">> >>
        ELSE IF source = "edge" THEN
            << Home \o <<".config", "microsoft-edge", "Default", "History">> >>
            \o (IF win # None
                THEN << win[1] \o <<"Microsoft", "Edge", "User Data", "Default", "History">> >>
                ELSE <<>>)
            \o << MntLocal \o <<"Microsoft", "Edge", "User Data", "Default", "History">>,
                  MntLocal \o <<"Microsoft", "Edge", "User Data", "Profile 1", "History">> >>
        ELSE <<>>

profile_names == <<"Default", "Profile 1", "Profile 2", "Profile 3">>

\* The base directories of _chromium_profile_candidates; None where the
\* environment variable is unset.
candidate_bases(environ, source) ==
    LET win == _win_localappdata(environ)
    IN  IF source = "chrome" THEN
            << Some(Home \o <<".config", "google-chrome">>),
               Some(Home \o <<".config", "chromium">>),
               IF win # None THEN Some(win[1] \o <<"Google", "Chrome", "User Data">>) ELSE None,
               Some(MntLocal \o <<"Google", "Chrome", "User Data">>) >>
        ELSE IF source = "edge" THEN
            << Some(Home \o <<".config", "microsoft-edge">>),
               IF win # None THEN Some(win[1] \o <<"Microsoft", "Edge", "User Data">>) ELSE None,
               Some(MntLocal \o <<"Microsoft", "Edge", "User Data">>) >>
        ELSE <<>>

\* The loop body of _chromium_profile_candidates for one base: the standard
\* profile names first, then every other sub-directory holding a History.
candidates_of_base(fs, base, order) ==
    IF base = None \/ ~exists(fs, base[1]) THEN <<>>
    ELSE LET HasStd(name) == exists(fs, base[1] \o <<name, "History">>)
             std == SelectSeq(profile_names, HasStd)
             stdPaths == [i \in 1..Len(std) |-> base[1] \o <<std[i], "History">>]
             Extra(subdir) == /\ is_dir(fs, subdir)
                              /\ exists(fs, subdir \o <<"History">>)
                              /\ (subdir \o <<"History">>) \notin Range(stdPaths)
             extras == SelectSeq(iterdir(fs, base[1], order), Extra)
         IN  stdPaths \o [i \in 1..Len(extras) |-> extras[i] \o <<"History">>]

RECURSIVE candidates_from(_, _, _, _)
candidates_from(fs, bases, order, i) ==
    IF i > Len(bases) THEN <<>>
    ELSE candidates_of_base(fs, bases[i], order) \o candidates_from(fs, bases, order, i + 1)

_chromium_profile_candidates(fs, environ, source, order) ==
    candidates_from(fs, candidate_bases(environ, source), order, 1)

\* The first existing path of a sequence of paths, or None.
first_existing(fs, paths) ==
    LET hits == {i \in 1..Len(paths) : exists(fs, paths[i])}
    IN  IF hits = {} THEN None ELSE Some(paths[Min(hits)])

\* The last existing path of a sequence of paths, or None.
last_existing(fs, paths) ==
    LET hits == {i \in 1..Len(paths) : exists(fs, paths[i])}
    IN  IF hits = {} THEN None ELSE Some(paths[CHOOSE i \in hits : \A j \in hits : j <= i])

\* Mutation of chromium_select: the loops keep the last existing path.
chromium_select_last(fs, environ, src, order) ==
    LET known == last_existing(fs, KNOWN_HISTORY_PATHS(environ, src))
    IN  IF known # None THEN [path |-> known, scan |-> FALSE]
        ELSE [path |-> last_existing(fs, _chromium_profile_candidates(fs, environ, src, order)),
              scan |-> TRUE]

\* The database file a Chromium-family reader selects (_read_chromium_like,
\* browser_history.py:123-134): the first existing well-known path, else the
\* first existing candidate of the fallback scan; None when there is none.
\* `scan` tells whether _chromium_profile_candidates was evaluated.
chromium_select(fs, environ, src, order) ==
    LET known == first_existing(fs, KNOWN_HISTORY_PATHS(environ, src))
    IN  IF known # None THEN [path |-> known, scan |-> FALSE]
        ELSE [path |-> first_existing(fs, _chromium_profile_candidates(fs, environ, src, order)),
              scan |-> TRUE]

\* profiles.ini: the file _read_firefox parses (browser_history.py:185-191).
HomeIni == Home \o <<".mozilla", "firefox", "profiles.ini">>

WinIni(environ) == _win_appdata(environ)[1] \o <<"Mozilla", "Firefox", "profiles.ini">>

firefox_profiles_ini(fs, environ) ==
    IF exists(fs, HomeIni) THEN Some(HomeIni)
    ELSE IF _win_appdata(environ) # None /\ exists(fs, WinIni(environ))
         THEN Some(WinIni(environ))
         ELSE None

\* str.lower() on the keys that occur in a profiles.ini.
lower_key(key) ==
    CASE key = "Path" -> "path"
      [] key = "PATH" -> "path"
      [] key = "Name" -> "name"
      [] OTHER -> key

\* The values of the `path=` lines, in file order (browser_history.py:193-197).
parse_profile_dirs(lines) ==
    LET IsPath(line) == lower_key(line.key) = "path"
        hits == SelectSeq(lines, IsPath)
    IN  [i \in 1..Len(hits) |-> hits[i].value]

\* The places database of one profile (browser_history.py:203-212), or None.
firefox_db_path(fs, environ, profile) ==
    LET linux == Home \o <<".mozilla", "firefox", profile, "places.sqlite">>
        first == IF ~exists(fs, linux) /\ _win_appdata(environ) # None
                 THEN _win_appdata(environ)[1] \o <<"Mozilla", "Firefox", profile, "places.sqlite">>
                 ELSE linux
        alt == MntRoaming \o <<"Mozilla", "Firefox", "Profiles", profile, "places.sqlite">>
    IN  IF exists(fs, first) THEN Some(first)
        ELSE IF exists(fs, alt) THEN Some(alt)
        ELSE None

\* ------------------------------------------------------------------------
\* Local IP probe (browser_history.py:53-65).  `probe` is what the socket
\* calls did: "OSError", or the address getsockname reported.
\* ------------------------------------------------------------------------
Loopback == {"127.0.0.1", "127.0.1.1"}        \* addresses starting "127."

\* What a call hands to its caller: a value, or the exception it raises.
Returns(v) == [value |-> v, raises |-> "none"]
Raises(e) == [value |-> NoStr, raises |-> e]

\* Mutation of _resolve_local_ip: the socket calls are made outside the try
\* block.
resolve_local_ip_uncaught(probe) ==
    IF probe = "OSError" THEN Raises("OSError")
    ELSE IF probe # "" /\ probe \notin Loopback THEN Returns(probe)
    ELSE Returns(NoStr)

_resolve_local_ip(probe) ==
    IF probe = "OSError" THEN Returns(NoStr)
    ELSE IF probe # "" /\ probe \notin Loopback THEN Returns(probe)
    ELSE Returns(NoStr)

\* ------------------------------------------------------------------------
\* The SQL query of one reader: the joined rows at or after `bound` (None:
\* no WHERE clause), ORDER BY visit time DESC, LIMIT `limit`.  SQLite leaves
\* the order of equal keys open, and reads a negative LIMIT as no limit.
\* ------------------------------------------------------------------------
Descending(o) == \A i \in 1..(Len(o) - 1) : o[i].ts >= o[i + 1].ts

sql_limit(o, limit) == IF limit < 0 THEN o ELSE Take(o, limit)

sql_where(rows, bound) == {r \in rows : bound = None \/ r.ts >= bound[1]}

QueryResults(rows, bound, limit) ==
    {sql_limit(o, limit) : o \in {x \in Orderings(sql_where(rows, bound)) : Descending(x)}}

BrowserEntry(src, url, title, visit_time, query, addr) ==
    [source |-> src, url |-> url, title |-> title, visit_time |-> visit_time,
     query |-> query, ip |-> addr]

\* ------------------------------------------------------------------------
\* Merge and cap (browser_history.py:72-80)
\* ------------------------------------------------------------------------
Known == {"chrome", "edge", "firefox"}

\* Mutation of lower: names are compared as given.
lower_identity(name) == name

\* str.lower() on the browser names used as inputs.
lower(name) ==
    CASE name \in {"chrome", "Chrome", "CHROME"} -> "chrome"
      [] name \in {"edge", "EDGE"} -> "edge"
      [] name \in {"firefox", "FireFox"} -> "firefox"
      [] name = "Netscape" -> "netscape"
      [] OTHER -> name

normalize(names) == {lower(b) : b \in names}

\* Mutation of sort_desc: the concatenation is left in source order.
sort_none(es) == es

\* list.sort(key=visit_time, reverse=True): stable, descending.
RECURSIVE insert_desc(_, _)
insert_desc(sorted, e) ==
    IF sorted = <<>> THEN <<e>>
    ELSE IF Head(sorted).visit_time >= e.visit_time
         THEN <<Head(sorted)>> \o insert_desc(Tail(sorted), e)
         ELSE <<e>> \o sorted

RECURSIVE sort_desc(_)
sort_desc(es) ==
    IF es = <<>> THEN <<>>
    ELSE insert_desc(sort_desc(SubSeq(es, 1, Len(es) - 1)), es[Len(es)])

\* Mutation of cap: the merged list is returned whole.
cap_ignored(es, limit) == es

\* entries[:max_rows] if max_rows else entries
cap(es, limit) == IF limit # 0 THEN SliceTo(es, limit) ELSE es

\* ------------------------------------------------------------------------
\* LocalStore (storage.py:28-120): the browser_history table, the CSV export
\* and the two HTML files rendered from it.  A file that does not exist is
\* None.
\* ------------------------------------------------------------------------
\* A text in the url column, read as a URL: a path without host or query.
CsvHeader ==
    <<"source", [loc |-> <<"", "url">>, query |-> <<>>], "title", "visit_time", "query", "ip">>

\* datetime.isoformat(): the text of a datetime.
isoformat(t) == ToString(t)

\* The tuple inserted into the table for one record (storage.py:85-94).
table_row(e) == <<e.source, e.url, e.title, isoformat(e.visit_time), e.query, e.ip>>

\* The CSV row written for one record (storage.py:110-120).
csv_row(e) ==
    LET or_empty(v) == IF v = NoStr THEN "" ELSE v      \* `value or ""`
    IN  <<e.source, e.url, or_empty(e.title), isoformat(e.visit_time), or_empty(e.query),
          or_empty(e.ip)>>

\* Mutation of _append_csv: the header is written by every call.
append_csv_header_always(csv, rows) ==
    Some((IF csv = None THEN <<>> ELSE csv[1]) \o <<CsvHeader>>
         \o [i \in 1..Len(rows) |-> csv_row(rows[i])])

\* LocalStore._append_csv (storage.py:104-120): the header is written when
\* the file does not exist yet, then one row per record is appended.
_append_csv(csv, rows) ==
    LET is_new == csv = None
    IN  Some((IF is_new THEN <<CsvHeader>> ELSE csv[1])
             \o [i \in 1..Len(rows) |-> csv_row(rows[i])])

\* LocalStore._write_html (storage.py:122-235): the table rendered from the
\* rows of the CSV after its first; nothing is written without a CSV or
\* for an empty one.
_write_html(csv, html) ==
    IF csv = None \/ csv[1] = <<>> THEN html
    ELSE Some([header |-> csv[1][1], body |-> Tail(csv[1])])

\* LocalStore._aggregate_domains (storage.py:237-270): visits per host over
\* the rows of the CSV after its first.
_aggregate_domains(csv) ==
    LET body == IF csv = None \/ csv[1] = <<>> THEN <<>> ELSE Tail(csv[1])
        hosts == {body[i][2].loc[1] : i \in 1..Len(body)}
    IN  [h \in hosts |-> Cardinality({i \in 1..Len(body) : body[i][2].loc[1] = h})]

\* urlparse(url).hostname in _aggregate_domains raises ValueError on a URL
\* whose host part is malformed.
aggregate_raises(csv) ==
    /\ csv # None
    /\ \E i \in 2..Len(csv[1]) : urlparse_raises(csv[1][i][2])

FreshStore == [table |-> <<>>, csv |-> None, html |-> None, analysis |-> None]

\* LocalStore.save_browser_history (storage.py:73-102): the store after the
\* call and what the call hands to its caller.
save_browser_history(st, es) ==
    IF es = <<>> THEN [store |-> st, value |-> 0, raises |-> "none"]
    ELSE LET inserted == [st EXCEPT !.table = @ \o [i \in 1..Len(es) |-> table_row(es[i])]]
             appended == [inserted EXCEPT !.csv = _append_csv(@, es)]
             rendered == [appended EXCEPT !.html = _write_html(appended.csv, @)]
         IN  IF aggregate_raises(rendered.csv)
             THEN [store |-> rendered, value |-> 0, raises |-> "ValueError"]
             ELSE [store |-> [rendered EXCEPT !.analysis = Some(_aggregate_domains(rendered.csv))],
                   value |-> Len(es), raises |-> "none"]

\* ------------------------------------------------------------------------
\* State
\* ------------------------------------------------------------------------
VARIABLES
    files,        \* the host's files: path -> content
    environ,      \* LOCALAPPDATA / APPDATA: None or Some(path)
    listing,      \* the order in which the file system lists directory names
    tz,           \* the host's UTC offset, in ticks (whole seconds)
    network,      \* "up", "down", "loopback" or "flaky" (the probe may change)
    reaper,       \* TRUE when another process may delete files under /tmp
    browsers,     \* argument: the requested names
    since,        \* argument: None or Some(naive datetime)
    max_rows,     \* argument
    pc,           \* position in fetch_browser_history and the reader it runs
    normalized,   \* local of fetch_browser_history
    entries,      \* local of fetch_browser_history
    source,       \* the reader running: its source name, or NoStr
    db_path,      \* the reader's db_path
    temp_path,    \* the reader's temp_path (a number; 0: none)
    ip,           \* the reader's ip
    pending,      \* the exception in flight in the reader, or "none"
    rows,         \* the value the reader is about to return
    profile_dirs, \* _read_firefox: the profiles not yet visited
    temps,        \* the files under /tmp: number -> content
    tmpSeq,       \* temporary files created so far
    fileOps,      \* every file operation performed so far
    called,       \* the sources whose reader was called
    scanned,      \* the sources whose fallback scan ran
    result,       \* the returned list
    raised,       \* the exception that escaped, or "none"
    conv,         \* a conversion called on its own: its argument and results
    step,         \* run_pipeline: the agent to run next ("none": no pipeline)
    ctx,          \* the AgentContext: consents, history, entries_saved, ...
    audit,        \* the audit log: the events logged so far
    store,        \* the LocalStore's files
    calls         \* save_browser_history called on its own: the values returned

world == <<files, environ, listing, tz, network, reaper>>
args == <<browsers, since, max_rows>>
reader == <<source, db_path, temp_path, ip, pending, rows, profile_dirs>>
trace == <<fileOps, called, scanned>>
outer == <<conv, step, ctx, audit, store, calls>>
vars == <<world, args, pc, normalized, entries, reader, temps, tmpSeq, trace, result, raised,
          outer>>

\* ------------------------------------------------------------------------
\* The hosts and arguments explored
\* ------------------------------------------------------------------------
FirstTime == 11     \* the earliest visit time
LastTime == 13      \* the latest visit time
MaxDbRows == 2      \* visits per database
MaxRowsArg == 2     \* the largest max_rows
MaxFiles == 2       \* History files per host in the discovery hosts
MaxNames == 2       \* requested names in the name hosts
MaxPairs == 2       \* name=value fields in a query string
MaxConvTime == 200  \* the latest datetime given to a conversion on its own
MaxSaves == 3       \* calls of save_browser_history on one store
MaxSaveLen == 2     \* records given to one call of save_browser_history

Times == FirstTime..LastTime
TieTime == FirstTime + 1

U1 == [loc |-> <<"a.com", "search">>, query |-> <<[k |-> "q", v |-> "tla"]>>]
U2 == [loc |-> <<"b.org">>, query |-> <<>>]

Row(url, ts) == [url |-> url, title |-> "t", ts |-> ts]

\* The stored tick of the naive time t in each family's epoch.
ChromiumTick(t) == t - epoch_start
FirefoxTick(t) == t

ChromiumPool == {Row(U1, ChromiumTick(t)) : t \in Times} \cup {Row(U2, ChromiumTick(TieTime))}
FirefoxPool == {Row(U1, FirefoxTick(t)) : t \in Times} \cup {Row(U2, FirefoxTick(TieTime))}

Db(rs) == [kind |-> "db", rows |-> rs, lines |-> <<>>]
Corrupt == [kind |-> "corrupt", rows |-> {}, lines |-> <<>>]
Unreadable == [kind |-> "unreadable", rows |-> {}, lines |-> <<>>]
Ini(ls) == [kind |-> "ini", rows |-> {}, lines |-> ls]
EmptyFile == [kind |-> "empty", rows |-> {}, lines |-> <<>>]

DbImages(pool) == {Db(rs) : rs \in {x \in SUBSET pool : Cardinality(x) <= MaxDbRows}}
Images(pool) == DbImages(pool) \cup {Corrupt, Unreadable}

NoEnv == [LOCALAPPDATA |-> None, APPDATA |-> None]
WinEnv == [LOCALAPPDATA |-> Some(<<"%LOCALAPPDATA%">>), APPDATA |-> Some(<<"%APPDATA%">>)]

ChromeDefault == Home \o <<".config", "google-chrome", "Default", "History">>
EdgeDefault == Home \o <<".config", "microsoft-edge", "Default", "History">>
PlacesOf(profile) == Home \o <<".mozilla", "firefox", profile, "places.sqlite">>

PathLine(p) == [key |-> "Path", value |-> p]

\* A function from a set of paths, given as a set of <<path, content>> pairs.
FileMap(pairs) == [p \in {x[1] : x \in pairs} |-> (CHOOSE x \in pairs : x[1] = p)[2]]

SinceArgs == {None} \cup {Some(t) : t \in Times}
MaxRowsArgs == (0 - 1)..MaxRowsArg

TwoVisits == Db({Row(U1, ChromiumTick(FirstTime)), Row(U1, ChromiumTick(LastTime))})
OneVisit == Db({Row(U2, ChromiumTick(TieTime))})
FirefoxVisits == Db({Row(U1, FirefoxTick(FirstTime)), Row(U2, FirefoxTick(TieTime))})

\* Every reader finds its database at its first location.
PlainHost(imgC, imgE, imgF) ==
    FileMap({<<ChromeDefault, imgC>>, <<PlacesOf("pA"), imgF>>,
             <<HomeIni, Ini(<<PathLine("pA")>>)>>}
            \cup (IF imgE = EmptyFile THEN {} ELSE {<<EdgeDefault, imgE>>}))

\* The locals of a call that has not begun.
FreshCall ==
    /\ normalized = {}
    /\ entries = <<>>
    /\ source = NoStr
    /\ db_path = None
    /\ temp_path = 0
    /\ ip = NoStr
    /\ pending = "none"
    /\ rows = <<>>
    /\ profile_dirs = <<>>
    /\ temps = <<>>
    /\ tmpSeq = 0
    /\ fileOps = {}
    /\ called = {}
    /\ scanned = {}
    /\ result = <<>>
    /\ raised = "none"

StartCall == pc = "fetch" /\ FreshCall

\* No conversion is called on its own.
NoConv == [family |-> NoStr, value |-> 0, ticks |-> None, back |-> None]

\* AgentContext as constructed in cli.main (agents.py:28-39, cli.py:56-62).
NewContext ==
    [consents |-> <<>>, history |-> <<>>, entries_saved |-> 0,
     analyze_with_llamaindex |-> FALSE, llm_analysis_result |-> NoStr]

\* No pipeline runs and the store is not used.
NoPipeline ==
    /\ step = "none"
    /\ ctx = NewContext
    /\ audit = <<>>
    /\ store = FreshStore
    /\ calls = <<>>

\* Contents and arguments vary; every database sits at its first location.
InitMerge ==
    /\ \E imgC \in Images(ChromiumPool), imgF \in Images(FirefoxPool), imgE \in {EmptyFile, OneVisit} :
          files = PlainHost(imgC, imgE, imgF)
    /\ environ = NoEnv
    /\ tz = 0
    /\ network = "up"
    /\ reaper = FALSE
    /\ browsers = {"chrome", "edge", "firefox"}
    /\ since \in SinceArgs
    /\ max_rows \in MaxRowsArgs

\* Hosts east and west of UTC.
InitZone ==
    /\ \E imgF \in DbImages(FirefoxPool) : files = PlainHost(TwoVisits, EmptyFile, imgF)
    /\ environ = NoEnv
    /\ tz \in {0 - UsPerSec, UsPerSec}
    /\ network = "up"
    /\ reaper = FALSE
    /\ browsers \in {{"firefox"}, {"chrome", "firefox"}}
    /\ since \in SinceArgs
    /\ max_rows \in {0, MaxRowsArg}

\* Which History file exists varies; each file holds one visit of its own.
WinLocal == WinEnv.LOCALAPPDATA[1]

ScanOnlyPaths ==
    { Home \o <<".config", "google-chrome", "Profile 1", "History">>,
      Home \o <<".config", "google-chrome", "Work", "History">>,
      Home \o <<".config", "google-chrome", "Guest", "History">>,
      Home \o <<".config", "chromium", "Profile 2", "History">>,
      MntLocal \o <<"Google", "Chrome", "User Data", "Profile 3", "History">>,
      MntLocal \o <<"Google", "Chrome", "User Data", "Work", "History">>,
      Home \o <<".config", "microsoft-edge", "Profile 1", "History">>,
      Home \o <<".config", "microsoft-edge", "Work", "History">>,
      MntLocal \o <<"Microsoft", "Edge", "User Data", "Guest", "History">> }

WinScanOnlyPaths ==
    { WinLocal \o <<"Google", "Chrome", "User Data", "Profile 2", "History">>,
      WinLocal \o <<"Microsoft", "Edge", "User Data", "Work", "History">> }

HistoryPaths(env) ==
    Range(KNOWN_HISTORY_PATHS(env, "chrome")) \cup Range(KNOWN_HISTORY_PATHS(env, "edge"))
    \cup ScanOnlyPaths \cup (IF env = WinEnv THEN WinScanOnlyPaths ELSE {})

VisitOf(path) == Db({Row([loc |-> path, query |-> <<>>], ChromiumTick(TieTime))})

InitDiscovery ==
    /\ environ \in {NoEnv, WinEnv}
    /\ \E S \in {x \in SUBSET HistoryPaths(environ) : Cardinality(x) <= MaxFiles} :
          files = [p \in S |-> VisitOf(p)]
    /\ tz = 0
    /\ network = "up"
    /\ reaper = FALSE
    /\ browsers = {"chrome", "edge"}
    /\ since = None
    /\ max_rows = MaxRowsArg

\* The Firefox profiles vary: the registry, where each places database
\* lies and what it holds.
IniContents ==
    { <<PathLine("pA"), PathLine("pB")>>,
      <<[key |-> "Name", value |-> "x"], [key |-> "PATH", value |-> "pB"],
        [key |-> "path", value |-> "pA"]>>,
      <<[key |-> "Name", value |-> "x"]>> }

PlacesLocations(env, profile) ==
    { Home \o <<".mozilla", "firefox", profile, "places.sqlite">>,
      MntRoaming \o <<"Mozilla", "Firefox", "Profiles", profile, "places.sqlite">> }
    \cup (IF env.APPDATA # None
          THEN {env.APPDATA[1] \o <<"Mozilla", "Firefox", profile, "places.sqlite">>}
          ELSE {})

PlacesImages(profile) ==
    { Db({Row([loc |-> <<profile>>, query |-> <<>>], FirefoxTick(TieTime))}), Corrupt, Unreadable }

\* No places database, or one database at one location.
PlacesChoices(env, profile) ==
    {{}} \cup {{<<p, img>>} : p \in PlacesLocations(env, profile), img \in PlacesImages(profile)}

IniChoices(env) ==
    {{}} \cup {{<<HomeIni, Ini(ls)>>} : ls \in IniContents}
    \cup (IF env.APPDATA # None THEN {{<<WinIni(env), Ini(ls)>>} : ls \in IniContents} ELSE {})

InitProfiles ==
    /\ environ \in {NoEnv, WinEnv}
    /\ \E ini \in IniChoices(environ), a \in PlacesChoices(environ, "pA"),
          b \in PlacesChoices(environ, "pB") :
          files = FileMap(ini \cup a \cup b)
    /\ tz = 0
    /\ network = "up"
    /\ reaper = FALSE
    /\ browsers = {"firefox"}
    /\ since = None
    /\ max_rows = MaxRowsArg

\* The requested names vary.
BrowserNames ==
    {"chrome", "Chrome", "CHROME", "edge", "EDGE", "firefox", "FireFox",
     "Netscape", "netscape", "safari"}

InitNames ==
    /\ files = PlainHost(TwoVisits, OneVisit, FirefoxVisits)
    /\ environ = NoEnv
    /\ tz = 0
    /\ network = "up"
    /\ reaper = FALSE
    /\ browsers \in {x \in SUBSET BrowserNames : Cardinality(x) <= MaxNames}
    /\ since = None
    /\ max_rows = MaxRowsArg + 1

\* The network and the temporary directory vary.
InitHost ==
    /\ \E imgC \in {TwoVisits, Corrupt, Unreadable}, imgF \in {FirefoxVisits, Corrupt, Unreadable} :
          files = PlainHost(imgC, OneVisit, imgF)
    /\ environ = NoEnv
    /\ tz = 0
    /\ \/ network \in {"down", "loopback", "flaky"} /\ reaper = FALSE
       \/ network = "up" /\ reaper = TRUE
    /\ browsers = {"chrome", "edge", "firefox"}
    /\ since = None
    /\ max_rows = MaxRowsArg + 1

\* The URL of the one stored visit varies, for each source in turn.
QueryStrings ==
    UNION {[1..n -> [k : {"q", "query", "text", "x", "%71"}, v : {"", "a", "b+c"}]] :
             n \in 0..MaxPairs}
QueryUrls ==
    {[loc |-> <<h, "s">>, query |-> qs] : h \in {"e.com"} \cup BadNetlocs, qs \in QueryStrings}

SingleHost(s, u) ==
    CASE s = "chrome" -> FileMap({<<ChromeDefault, Db({Row(u, ChromiumTick(TieTime))})>>})
      [] s = "edge" -> FileMap({<<EdgeDefault, Db({Row(u, ChromiumTick(TieTime))})>>})
      [] OTHER -> FileMap({<<PlacesOf("pA"), Db({Row(u, FirefoxTick(TieTime))})>>,
                           <<HomeIni, Ini(<<PathLine("pA")>>)>>})

InitQueries ==
    /\ \E s \in Known, u \in QueryUrls :
          /\ files = SingleHost(s, u)
          /\ browsers = {s}
    /\ environ = NoEnv
    /\ tz = 0
    /\ network = "up"
    /\ reaper = FALSE
    /\ since = None
    /\ max_rows = MaxRowsArg

\* The names of the directories that hold a History file.
DirNames == {f[Len(f) - 1] : f \in {g \in DOMAIN files : g[Len(g)] = "History"}}

Init ==
    /\ StartCall
    /\ (InitMerge \/ InitZone \/ InitDiscovery \/ InitProfiles \/ InitNames \/ InitHost
        \/ InitQueries)
    /\ listing \in Orderings(DirNames)
    /\ conv = NoConv
    /\ NoPipeline

\* ------------------------------------------------------------------------
\* fetch_browser_history and its readers
\* ------------------------------------------------------------------------
Probes ==
    CASE network = "up" -> {"192.168.1.7"}
      [] network = "down" -> {"OSError"}
      [] network = "loopback" -> {"127.0.0.1"}
      [] OTHER -> {"OSError", "127.0.0.1", "192.168.1.7", "10.0.0.2"}

next_source(src) == IF src = "chrome" THEN "edge" ELSE "firefox"

Remove(fn, key) == [x \in (DOMAIN fn) \ {key} |-> fn[x]]

Put(fn, key, val) == [x \in (DOMAIN fn) \cup {key} |-> IF x = key THEN val ELSE fn[x]]

FileOp(op, src, path, tmp) == [op |-> op, src |-> src, path |-> path, tmp |-> tmp]

\* Mutation of connect_target: the query opens the browser's own file.
connect_original(db, tmp) == [path |-> db[1], tmp |-> 0]

\* sqlite3.connect(f"file:{temp_path}?mode=ro", uri=True)
\* (browser_history.py:159 and 231): the file the query opens.
connect_target(db, tmp) == [path |-> <<>>, tmp |-> tmp]

\* Mutation of cleanup: the unlink sits after the try block instead of in a
\* finally clause, so it is skipped when an exception is in flight.
cleanup_on_success(tmps, t, pend) ==
    IF pend = "none" /\ t \in DOMAIN tmps
    THEN [temps |-> Remove(tmps, t), pending |-> pend]
    ELSE [temps |-> tmps, pending |-> pend]

\* Mutation of cleanup: the temporary file is left behind.
cleanup_skipped(tmps, t, pend) == [temps |-> tmps, pending |-> pend]

\* browser_history.py:175-179 and 247-251: temp_path.unlink() with
\* FileNotFoundError swallowed.  `pend` is the exception in flight when the
\* finally clause is entered; the result names the files left under /tmp
\* and the exception in flight when the clause is left.
cleanup(tmps, t, pend) ==
    IF t \in DOMAIN tmps
    THEN [temps |-> Remove(tmps, t), pending |-> pend]
    ELSE [temps |-> tmps, pending |-> pend]

ClearReader ==
    /\ source' = NoStr
    /\ db_path' = None
    /\ temp_path' = 0
    /\ ip' = NoStr
    /\ pending' = "none"
    /\ rows' = <<>>
    /\ profile_dirs' = <<>>

\* browser_history.py:71-72
fetch_start ==
    /\ pc = "fetch"
    /\ normalized' = normalize(browsers)
    /\ entries' = <<>>
    /\ pc' = "chrome"
    /\ UNCHANGED <<outer, world, args, reader, temps, tmpSeq, trace, result, raised>>

\* browser_history.py:73, 75: the source was not requested.
skip_chromium ==
    /\ pc \in {"chrome", "edge"}
    /\ pc \notin normalized
    /\ pc' = next_source(pc)
    /\ UNCHANGED <<outer, world, args, normalized, entries, reader, temps, tmpSeq, trace, result, raised>>

\* _read_chromium_like (browser_history.py:120-134), up to the call of
\* _read_chromium_db or the return of [].
_read_chromium_like ==
    /\ pc \in {"chrome", "edge"}
    /\ pc \in normalized
    /\ called' = called \cup {pc}
    /\ LET sel == chromium_select(files, environ, pc, listing)
       IN  /\ scanned' = IF sel.scan THEN scanned \cup {pc} ELSE scanned
           /\ IF sel.path = None
              THEN /\ pc' = next_source(pc)
                   /\ UNCHANGED reader
              ELSE /\ pc' = "c_mkstemp"
                   /\ source' = pc
                   /\ db_path' = sel.path
                   /\ UNCHANGED <<temp_path, ip, pending, rows, profile_dirs>>
    /\ UNCHANGED <<outer, world, args, normalized, entries, temps, tmpSeq, fileOps, result, raised>>

\* _read_chromium_db, browser_history.py:140-141.  Both lines lie before the
\* try block: an exception of _resolve_local_ip would leave the reader and
\* fetch_browser_history at once.
chromium_mkstemp ==
    /\ pc = "c_mkstemp"
    /\ tmpSeq' = tmpSeq + 1
    /\ temps' = Put(temps, tmpSeq + 1, EmptyFile)
    /\ fileOps' = fileOps \cup {FileOp("mkstemp", source, <<>>, tmpSeq + 1)}
    /\ \E probe \in Probes :
          LET got == _resolve_local_ip(probe)
          IN  IF got.raises # "none"
              THEN /\ raised' = got.raises
                   /\ pc' = "raised"
                   /\ ClearReader
              ELSE /\ ip' = got.value
                   /\ temp_path' = tmpSeq + 1
                   /\ pc' = "c_copy"
                   /\ UNCHANGED <<source, db_path, pending, rows, profile_dirs, raised>>
    /\ UNCHANGED <<outer, world, args, normalized, entries, called, scanned, result>>

\* shutil.copy2(db_path, temp_path), browser_history.py:143
chromium_copy2 ==
    /\ pc = "c_copy"
    /\ fileOps' = fileOps \cup {FileOp("copy2", source, db_path[1], temp_path)}
    /\ IF files[db_path[1]].kind = "unreadable"
       THEN /\ pending' = "PermissionError"
            /\ pc' = "c_finally"
            /\ UNCHANGED temps
       ELSE /\ temps' = Put(temps, temp_path, files[db_path[1]])
            /\ pc' = "c_query"
            /\ UNCHANGED pending
    /\ UNCHANGED <<outer, world, args, normalized, entries, source, db_path, temp_path, ip, rows,
                   profile_dirs, tmpSeq, called, scanned, result, raised>>

\* browser_history.py:144-174: the query on the temporary copy; sqlite3.Error
\* (no file, no database, no such table) makes the reader return []; the
\* ValueError of urlparse (line 277, called while the records are built) is
\* not caught.
chromium_query ==
    /\ pc = "c_query"
    /\ LET target == connect_target(db_path, temp_path)
       IN  fileOps' = fileOps \cup {FileOp("connect_ro", source, target.path, target.tmp)}
    /\ IF temp_path \notin DOMAIN temps \/ temps[temp_path].kind # "db"
       THEN rows' = <<>> /\ UNCHANGED pending
       ELSE LET bound == IF since # None THEN Some(_chromium_dt_to_ts(since[1])) ELSE None
            IN  \E rs \in QueryResults(temps[temp_path].rows, bound, max_rows) :
                   IF \E i \in 1..Len(rs) : urlparse_raises(rs[i].url)
                   THEN pending' = "ValueError" /\ UNCHANGED rows
                   ELSE /\ rows' = [i \in 1..Len(rs) |->
                                     BrowserEntry(source, rs[i].url, rs[i].title,
                                                  _chromium_ts_to_dt(rs[i].ts),
                                                  _extract_query(rs[i].url), ip)]
                        /\ UNCHANGED pending
    /\ pc' = "c_finally"
    /\ UNCHANGED <<outer, world, args, normalized, entries, source, db_path, temp_path, ip,
                   profile_dirs, temps, tmpSeq, called, scanned, result, raised>>

\* browser_history.py:175-179, then the return into fetch_browser_history
\* (entries.extend, lines 74 and 76) or the exception leaving it.
chromium_finally ==
    /\ pc = "c_finally"
    /\ fileOps' = fileOps \cup {FileOp("unlink", source, <<>>, temp_path)}
    /\ LET out == cleanup(temps, temp_path, pending)
       IN  /\ temps' = out.temps
           /\ IF out.pending # "none"
              THEN /\ raised' = out.pending
                   /\ pc' = "raised"
                   /\ UNCHANGED entries
              ELSE /\ entries' = entries \o rows
                   /\ pc' = next_source(source)
                   /\ UNCHANGED raised
    /\ ClearReader
    /\ UNCHANGED <<outer, world, args, normalized, tmpSeq, called, scanned, result>>

\* browser_history.py:77: firefox was not requested.
skip_firefox ==
    /\ pc = "firefox"
    /\ "firefox" \notin normalized
    /\ pc' = "sort"
    /\ UNCHANGED <<outer, world, args, normalized, entries, reader, temps, tmpSeq, trace, result, raised>>

\* _read_firefox, browser_history.py:185-199: find and parse profiles.ini,
\* probe the local IP (outside any try block).
_read_firefox ==
    /\ pc = "firefox"
    /\ "firefox" \in normalized
    /\ called' = called \cup {"firefox"}
    /\ LET ini == firefox_profiles_ini(files, environ)
       IN  IF ini = None
           THEN /\ pc' = "sort"
                /\ UNCHANGED <<reader, fileOps, raised>>
           ELSE /\ fileOps' = fileOps \cup {FileOp("read_text", "firefox", ini[1], 0)}
                /\ \E probe \in Probes :
                      LET got == _resolve_local_ip(probe)
                      IN  IF got.raises # "none"
                          THEN /\ raised' = got.raises
                               /\ pc' = "raised"
                               /\ UNCHANGED reader
                          ELSE /\ profile_dirs' = parse_profile_dirs(files[ini[1]].lines)
                               /\ ip' = got.value
                               /\ source' = "firefox"
                               /\ pc' = "f_loop"
                               /\ UNCHANGED <<db_path, temp_path, pending, rows, raised>>
    /\ UNCHANGED <<outer, world, args, normalized, entries, temps, tmpSeq, scanned, result>>

\* browser_history.py:201-213 and 252: the next profile of the loop; a
\* profile without a places database is passed over, the first one with a
\* database gets its temporary file; after the last profile, return [].
firefox_next_profile ==
    /\ pc = "f_loop"
    /\ IF profile_dirs = <<>>
       THEN /\ pc' = "sort"
            /\ ClearReader
            /\ UNCHANGED <<temps, tmpSeq, fileOps>>
       ELSE LET found == firefox_db_path(files, environ, Head(profile_dirs))
            IN  /\ profile_dirs' = Tail(profile_dirs)
                /\ IF found = None
                   THEN /\ pc' = "f_loop"
                        /\ UNCHANGED <<db_path, temp_path, temps, tmpSeq, fileOps>>
                   ELSE /\ db_path' = found
                        /\ tmpSeq' = tmpSeq + 1
                        /\ temp_path' = tmpSeq + 1
                        /\ temps' = Put(temps, tmpSeq + 1, EmptyFile)
                        /\ fileOps' = fileOps \cup {FileOp("mkstemp", source, <<>>, tmpSeq + 1)}
                        /\ pc' = "f_copy"
                /\ UNCHANGED <<source, ip, pending, rows>>
    /\ UNCHANGED <<outer, world, args, normalized, entries, called, scanned, result, raised>>

\* shutil.copy2(db_path, temp_path), browser_history.py:215
firefox_copy2 ==
    /\ pc = "f_copy"
    /\ fileOps' = fileOps \cup {FileOp("copy2", source, db_path[1], temp_path)}
    /\ IF files[db_path[1]].kind = "unreadable"
       THEN /\ pending' = "PermissionError"
            /\ pc' = "f_finally"
            /\ UNCHANGED temps
       ELSE /\ temps' = Put(temps, temp_path, files[db_path[1]])
            /\ pc' = "f_query"
            /\ UNCHANGED pending
    /\ UNCHANGED <<outer, world, args, normalized, entries, source, db_path, temp_path, ip, rows,
                   profile_dirs, tmpSeq, called, scanned, result, raised>>

\* browser_history.py:216-246
firefox_query ==
    /\ pc = "f_query"
    /\ LET target == connect_target(db_path, temp_path)
       IN  fileOps' = fileOps \cup {FileOp("connect_ro", source, target.path, target.tmp)}
    /\ IF temp_path \notin DOMAIN temps \/ temps[temp_path].kind # "db"
       THEN rows' = <<>> /\ UNCHANGED pending
       ELSE LET bound == IF since # None THEN Some(_firefox_dt_to_ts(since[1], tz)) ELSE None
            IN  \E rs \in QueryResults(temps[temp_path].rows, bound, max_rows) :
                   IF \E i \in 1..Len(rs) : urlparse_raises(rs[i].url)
                   THEN pending' = "ValueError" /\ UNCHANGED rows
                   ELSE /\ rows' = [i \in 1..Len(rs) |->
                                     BrowserEntry("firefox", rs[i].url, rs[i].title,
                                                  _firefox_ts_to_dt(rs[i].ts),
                                                  _extract_query(rs[i].url), ip)]
                        /\ UNCHANGED pending
    /\ pc' = "f_finally"
    /\ UNCHANGED <<outer, world, args, normalized, entries, source, db_path, temp_path, ip,
                   profile_dirs, temps, tmpSeq, called, scanned, result, raised>>

\* browser_history.py:247-251, then the return into fetch_browser_history
\* (entries.extend, line 78) or the exception leaving it.
firefox_finally ==
    /\ pc = "f_finally"
    /\ fileOps' = fileOps \cup {FileOp("unlink", source, <<>>, temp_path)}
    /\ LET out == cleanup(temps, temp_path, pending)
       IN  /\ temps' = out.temps
           /\ IF out.pending # "none"
              THEN /\ raised' = out.pending
                   /\ pc' = "raised"
                   /\ UNCHANGED entries
              ELSE /\ entries' = entries \o rows
                   /\ pc' = "sort"
                   /\ UNCHANGED raised
    /\ ClearReader
    /\ UNCHANGED <<outer, world, args, normalized, tmpSeq, called, scanned, result>>

\* browser_history.py:79-80
sort_and_cap ==
    /\ pc = "sort"
    /\ entries' = sort_desc(entries)
    /\ result' = cap(sort_desc(entries), max_rows)
    /\ pc' = "done"
    /\ UNCHANGED <<outer, world, args, normalized, reader, temps, tmpSeq, trace, raised>>

\* Another process deletes the reader's temporary file.
temp_reaper ==
    /\ reaper
    /\ pc \in {"c_copy", "c_query", "c_finally", "f_copy", "f_query", "f_finally"}
    /\ temp_path \in DOMAIN temps
    /\ temps' = Remove(temps, temp_path)
    /\ UNCHANGED <<outer, world, args, pc, normalized, entries, reader, tmpSeq, trace, result, raised>>

Next ==
    \/ fetch_start
    \/ skip_chromium
    \/ _read_chromium_like
    \/ chromium_mkstemp
    \/ chromium_copy2
    \/ chromium_query
    \/ chromium_finally
    \/ skip_firefox
    \/ _read_firefox
    \/ firefox_next_profile
    \/ firefox_copy2
    \/ firefox_query
    \/ firefox_finally
    \/ sort_and_cap
    \/ temp_reaper

Spec == Init /\ [][Next]_vars

\* ------------------------------------------------------------------------
\* The timestamp conversions called on their own (browser_history.py:255-273):
\* a datetime is turned into the ticks of a family and the ticks back into
\* a datetime.
\* ------------------------------------------------------------------------
\* Datetimes from 1601-01-01 on for Chromium, and from one offset after the
\* Unix epoch on for Firefox.
InitConv ==
    /\ StartCall
    /\ files = <<>>
    /\ environ = NoEnv
    /\ listing = <<>>
    /\ network = "up"
    /\ reaper = FALSE
    /\ browsers = {}
    /\ since = None
    /\ max_rows = 0
    /\ tz \in {0 - UsPerSec, 0, UsPerSec}
    /\ \E family \in {"chromium", "firefox"} :
       \E t \in (IF family = "chromium" THEN epoch_start ELSE UsPerSec)..MaxConvTime :
          /\ family = "chromium" => tz = 0
          /\ conv = [family |-> family, value |-> t, ticks |-> None, back |-> None]
    /\ NoPipeline

\* _chromium_dt_to_ts / _firefox_dt_to_ts
dt_to_ts ==
    /\ conv.family # NoStr
    /\ conv.ticks = None
    /\ conv' = [conv EXCEPT !.ticks =
                   Some(IF conv.family = "chromium"
                        THEN _chromium_dt_to_ts(conv.value)
                        ELSE _firefox_dt_to_ts(conv.value, tz))]
    /\ UNCHANGED <<world, args, pc, normalized, entries, reader, temps, tmpSeq, trace,
                   result, raised, step, ctx, audit, store, calls>>

\* _chromium_ts_to_dt / _firefox_ts_to_dt
ts_to_dt ==
    /\ conv.ticks # None
    /\ conv.back = None
    /\ conv' = [conv EXCEPT !.back =
                   Some(IF conv.family = "chromium"
                        THEN _chromium_ts_to_dt(conv.ticks[1])
                        ELSE _firefox_ts_to_dt(conv.ticks[1]))]
    /\ UNCHANGED <<world, args, pc, normalized, entries, reader, temps, tmpSeq, trace,
                   result, raised, step, ctx, audit, store, calls>>

NextConv == dt_to_ts \/ ts_to_dt

SpecConv == InitConv /\ [][NextConv]_vars

\* ------------------------------------------------------------------------
\* The pipeline (agents.py:42-120, consent.py) around fetch_browser_history
\* and the LocalStore.
\* ------------------------------------------------------------------------
DefaultMaxRows == 10000       \* max_rows when ingest_agent calls

\* Mutation of build_pipeline: the store step is listed before the ingest
\* step.
build_pipeline_store_first == <<"consent", "store", "ingest", "ui", "analysis">>

\* agents.build_pipeline (agents.py:113-114)
build_pipeline == <<"consent", "ingest", "store", "ui", "analysis">>

\* agents.run_pipeline (agents.py:117-120): the step run after `agent`, or
\* "end" after the last one.
next_step(agent) ==
    LET i == CHOOSE k \in 1..Len(build_pipeline) : build_pipeline[k] = agent
    IN  IF i = Len(build_pipeline) THEN "end" ELSE build_pipeline[i + 1]

\* str.strip().lower() on the lines typed at the prompts.
strip_lower(line) ==
    CASE line = " YES " -> "yes"
      [] line = "Y" -> "y"
      [] line = " " -> ""
      [] line = "No" -> "no"
      [] OTHER -> line

\* consent.prompt_yes_no (consent.py:8-16) on the lines typed: the question
\* is asked again until the answer is one of y, yes, n, no or empty.
RECURSIVE prompt_yes_no(_)
prompt_yes_no(typed) ==
    LET answer == strip_lower(Head(typed))
    IN  IF answer \in {"y", "yes"} THEN TRUE
        ELSE IF answer \in {"", "n", "no"} THEN FALSE
        ELSE prompt_yes_no(Tail(typed))

\* What the user types at one prompt.
Typed == {<<"y">>, <<" YES ">>, <<"No">>, <<" ">>, <<"maybe", "Y">>, <<"sure", "n">>}

\* Mutation of consents_get: every resource counts as granted.
consents_get_granted(consents, key) == TRUE

\* ctx.consents.get(key): a missing key is falsy.
consents_get(consents, key) == IF key \in DOMAIN consents THEN consents[key] ELSE FALSE

\* AuditLogger.log (storage.py:623-638)
Event(event, detail) == [event |-> event, detail |-> detail]

decision(allowed) == IF allowed THEN "granted" ELSE "declined"

\* consent.collect_consents (consent.py:24-36): the three decisions, each
\* logged as it is made.
collect_consents(g, f, b) ==
    [decisions |-> [gmail |-> prompt_yes_no(g), filesystem |-> prompt_yes_no(f),
                    browser_history |-> prompt_yes_no(b)],
     logged |-> << Event("consent", <<"gmail", decision(prompt_yes_no(g))>>),
                   Event("consent", <<"filesystem", decision(prompt_yes_no(f))>>),
                   Event("consent", <<"browser_history", decision(prompt_yes_no(b))>> ) >>]

\* A store that holds the export of an earlier run.
PriorStore ==
    save_browser_history(FreshStore,
                         <<BrowserEntry("chrome", U2, "t", FirstTime - 1, NoStr, NoStr)>>).store

InitPipeline ==
    /\ pc = "idle"
    /\ FreshCall
    /\ files \in {FileMap({})}
                \cup {PlainHost(imgC, imgE, FirefoxVisits) :
                         imgC \in {TwoVisits, Corrupt, Unreadable},
                         imgE \in {EmptyFile, OneVisit}}
    /\ environ = NoEnv
    /\ listing \in Orderings(DirNames)
    /\ tz = 0
    /\ network = "up"
    /\ reaper \in BOOLEAN
    /\ browsers \in {{"chrome", "firefox", "edge"}, {"firefox"}, {"edge"}}
    /\ since \in {Some(t) : t \in Times}
    /\ max_rows = DefaultMaxRows
    /\ conv = NoConv
    /\ step = build_pipeline[1]
    /\ ctx = NewContext
    /\ audit = <<>>
    /\ store \in {FreshStore, PriorStore}
    /\ calls = <<>>

fetching == <<world, args, pc, normalized, entries, reader, temps, tmpSeq, trace, result, raised>>

\* agents.py:42-48
consent_agent ==
    /\ step = "consent"
    /\ \E g, f, b, l \in Typed :
          LET got == collect_consents(g, f, b)
              ask == consents_get(got.decisions, "browser_history")
          IN  /\ ctx' = [ctx EXCEPT !.consents = got.decisions,
                                    !.analyze_with_llamaindex =
                                        IF ask THEN prompt_yes_no(l) ELSE @]
              /\ audit' = audit \o got.logged
                           \o (IF ask
                               THEN <<Event("consent",
                                            <<"llamaindex_analysis", decision(prompt_yes_no(l))>>)>>
                               ELSE <<>>)
    /\ step' = next_step("consent")
    /\ UNCHANGED <<fetching, conv, store, calls>>

\* agents.py:51-54: ingest_agent up to the call of fetch_browser_history,
\* or all of it when the consent was not given.
ingest_agent ==
    /\ step = "ingest"
    /\ IF consents_get(ctx.consents, "browser_history")
       THEN /\ audit' = Append(audit, Event("ingest_start", <<"browser_history">>))
            /\ pc' = "fetch"
            /\ step' = "fetching"
       ELSE /\ step' = next_step("ingest")
            /\ UNCHANGED <<audit, pc>>
    /\ UNCHANGED <<world, args, normalized, entries, reader, temps, tmpSeq, trace, result,
                   raised, conv, ctx, store, calls>>

\* agents.py:54-56: fetch_browser_history has returned.
ingest_return ==
    /\ step = "fetching"
    /\ pc = "done"
    /\ ctx' = [ctx EXCEPT !.history = result]
    /\ audit' = Append(audit, Event("ingest_end", <<"browser_history_count", Len(result)>>))
    /\ step' = next_step("ingest")
    /\ UNCHANGED <<fetching, conv, store, calls>>

\* agents.py:54 and 117-120: the exception of fetch_browser_history leaves
\* ingest_agent and run_pipeline.
ingest_raise ==
    /\ step = "fetching"
    /\ pc = "raised"
    /\ step' = "aborted"
    /\ UNCHANGED <<fetching, conv, ctx, audit, store, calls>>

\* agents.py:59-64
store_agent ==
    /\ step = "store"
    /\ IF ctx.history # <<>>
       THEN LET saved == save_browser_history(store, ctx.history)
                started == Append(audit, Event("store_start", <<"rows", Len(ctx.history)>>))
            IN  /\ store' = saved.store
                /\ calls' = Append(calls, [given |-> Len(ctx.history), value |-> saved.value,
                                          raises |-> saved.raises])
                /\ IF saved.raises # "none"
                   THEN /\ audit' = started
                        /\ step' = "aborted"
                        /\ UNCHANGED ctx
                   ELSE /\ ctx' = [ctx EXCEPT !.entries_saved = saved.value]
                        /\ audit' = Append(started, Event("store_end", <<"rows_saved", saved.value>>))
                        /\ step' = next_step("store")
       ELSE /\ step' = next_step("store")
            /\ UNCHANGED <<ctx, audit, store, calls>>
    /\ UNCHANGED <<fetching, conv>>

\* agents.py:67-71
ui_agent ==
    /\ step = "ui"
    /\ audit' = Append(audit, Event("ui_notify", <<"entries saved", ctx.entries_saved>>))
    /\ step' = next_step("ui")
    /\ UNCHANGED <<fetching, conv, ctx, store, calls>>

\* llm_analysis.analyze_with_llamaindex (llm_analysis.py:211-236) for what
\* it finds: whether llama_index is installed, the queries of the CSV,
\* whether graph_data.json exists, and the reply of the model (None on an
\* error).
analyze_with_llamaindex(installed, csv, graph, reply) ==
    LET body == IF csv = None \/ csv[1] = <<>> THEN <<>> ELSE Tail(csv[1])
        query_data == {i \in 1..Len(body) : body[i][5] # ""}
    IN  IF ~installed THEN NoStr
        ELSE IF query_data = {} /\ ~graph THEN NoStr
        ELSE reply

\* agents.py:74-107
analysis_agent ==
    /\ step = "analysis"
    /\ IF ~ctx.analyze_with_llamaindex
       THEN UNCHANGED <<ctx, audit>>
       ELSE \E installed \in BOOLEAN, graph \in BOOLEAN, reply \in {NoStr, "", "summary"} :
               LET res == analyze_with_llamaindex(installed, store.csv, graph, reply)
                   started == Append(audit, Event("analysis_start", <<"llamaindex">>))
               IN  IF res # NoStr /\ res # ""
                   THEN /\ ctx' = [ctx EXCEPT !.llm_analysis_result = res]
                        /\ audit' = Append(started, Event("analysis_end", <<"llamaindex_success">>))
                   ELSE /\ audit' = Append(started, Event("analysis_end", <<"llamaindex_failed">>))
                        /\ UNCHANGED ctx
    /\ step' = next_step("analysis")
    /\ UNCHANGED <<fetching, conv, store, calls>>

NextPipeline ==
    \/ consent_agent
    \/ ingest_agent
    \/ ingest_return
    \/ ingest_raise
    \/ store_agent
    \/ ui_agent
    \/ analysis_agent
    \/ fetch_start
    \/ skip_chromium
    \/ _read_chromium_like
    \/ chromium_mkstemp
    \/ chromium_copy2
    \/ chromium_query
    \/ chromium_finally
    \/ skip_firefox
    \/ _read_firefox
    \/ firefox_next_profile
    \/ firefox_copy2
    \/ firefox_query
    \/ firefox_finally
    \/ sort_and_cap
    \/ temp_reaper

SpecPipeline == InitPipeline /\ [][NextPipeline]_vars

\* ------------------------------------------------------------------------
\* save_browser_history called on its own, any number of times, on one
\* store (storage.py:73-120).
\* ------------------------------------------------------------------------
\* The record lists given to save_browser_history: up to MaxSaveLen records
\* with well-formed URLs, or one record whose URL has a malformed host.
SaveArgs ==
    LET good == { BrowserEntry("chrome", U1, "t", TieTime, "tla", "192.168.1.7"),
                  BrowserEntry("firefox", U2, NoStr, FirstTime, NoStr, NoStr) }
        bad == BrowserEntry("edge", [loc |-> <<"[::1", "s">>, query |-> <<>>], "t", TieTime,
                            NoStr, NoStr)
    IN  UNION {[1..n -> good] : n \in 0..MaxSaveLen} \cup {<<bad>>}

InitStore ==
    /\ pc = "idle"
    /\ FreshCall
    /\ files = <<>>
    /\ environ = NoEnv
    /\ listing = <<>>
    /\ tz = 0
    /\ network = "up"
    /\ reaper = FALSE
    /\ browsers = {}
    /\ since = None
    /\ max_rows = 0
    /\ conv = NoConv
    /\ step = "none"
    /\ ctx = NewContext
    /\ audit = <<>>
    /\ store \in {FreshStore, PriorStore}
    /\ calls = <<>>

save_call ==
    /\ Len(calls) < MaxSaves
    /\ \E es \in SaveArgs :
          LET saved == save_browser_history(store, es)
          IN  /\ store' = saved.store
              /\ calls' = Append(calls, [given |-> Len(es), value |-> saved.value,
                                          raises |-> saved.raises])
    /\ UNCHANGED <<fetching, conv, step, ctx, audit>>

NextStore == save_call

SpecStore == InitStore /\ [][NextStore]_vars

\* ------------------------------------------------------------------------
\* What the host holds, stated without the readers
\* ------------------------------------------------------------------------
\* The spellings of each family's name.
Spellings ==
    [s \in Known |->
        CASE s = "chrome" -> {"chrome", "Chrome", "CHROME"}
          [] s = "edge" -> {"edge", "EDGE"}
          [] OTHER -> {"firefox", "FireFox"}]

Requested == {s \in Known : browsers \cap Spellings[s] # {}}

\* The first profile of the registry that has a places database.
FirstFirefoxDb ==
    LET ini == firefox_profiles_ini(files, environ)
        dirs == IF ini = None THEN <<>> ELSE parse_profile_dirs(files[ini[1]].lines)
        hits == {i \in 1..Len(dirs) : firefox_db_path(files, environ, dirs[i]) # None}
    IN  IF hits = {} THEN None ELSE firefox_db_path(files, environ, dirs[Min(hits)])

\* The database a requested source reads, or None.
SelectedDb(s) ==
    IF s = "firefox" THEN FirstFirefoxDb
    ELSE chromium_select(files, environ, s, listing).path

KindOf(s) == IF SelectedDb(s) = None THEN "none" ELSE files[SelectedDb(s)[1]].kind

\* The naive time a stored tick stands for.
Instant(s, ts) == IF s = "firefox" THEN ts ELSE ts - EpochGap1601

\* The visits (source, url, time) of the well-formed selected databases of
\* the sources in S that lie at or after `since`.
Qualifying(S) ==
    UNION {{<<s, r.url, Instant(s, r.ts)>> :
              r \in {x \in files[SelectedDb(s)[1]].rows :
                        since = None \/ Instant(s, x.ts) >= since[1]}} :
           s \in {x \in S : KindOf(x) = "db"}}

Visits(es) == {<<es[i].source, es[i].url, es[i].visit_time>> : i \in 1..Len(es)}

SourcesOf(es) == {es[i].source : i \in 1..Len(es)}

\* No other process touches the temporary directory.
Undisturbed == ~reaper

ReaderIdle == pc \in {"fetch", "chrome", "edge", "firefox", "f_loop", "sort", "done", "raised"}

\* ------------------------------------------------------------------------
\* Claims
\* ------------------------------------------------------------------------

\* C1: with max_rows > 0 the returned list has at most max_rows records,
\* whatever the sources hold.
CapInvariant == (pc = "done" /\ max_rows > 0) => Len(result) <= max_rows

\* C1 witness: the merged list was longer than the cap and two sources
\* contributed to it.
CapWitness ==
    /\ pc = "done"
    /\ max_rows > 0
    /\ Len(entries) > max_rows
    /\ Cardinality(SourcesOf(entries)) >= 2
    /\ Len(result) = max_rows

\* C2: the returned list is non-increasing in visit_time.
SortInvariant ==
    pc = "done" =>
        \A i \in 1..(Len(result) - 1) : result[i].visit_time >= result[i + 1].visit_time

\* C2 witness: a firefox record precedes a chrome record with an earlier
\* visit time, although chrome is read first.
SortWitness ==
    /\ pc = "done"
    /\ \E i, j \in 1..Len(result) :
          /\ i < j
          /\ result[i].source = "firefox"
          /\ result[j].source = "chrome"
          /\ result[i].visit_time > result[j].visit_time

\* C3: when the database of one requested source fails (corrupt or
\* unreadable) and that of another is well-formed, no exception escapes, the
\* failing source contributes nothing and the returned records are those of
\* the well-formed sources.
SourceIsolation ==
    ( /\ pc \in {"done", "raised"}
      /\ Undisturbed
      /\ \E s \in Requested : KindOf(s) \in {"corrupt", "unreadable"}
      /\ \E s \in Requested : KindOf(s) = "db" )
    => /\ pc = "done"
       /\ \A s \in SourcesOf(result) : KindOf(s) = "db"
       /\ (since = None /\ max_rows > 0) =>
             /\ Visits(result) \subseteq Qualifying(Requested)
             /\ Len(result) = IF Cardinality(Qualifying(Requested)) < max_rows
                              THEN Cardinality(Qualifying(Requested)) ELSE max_rows

SinceRespected ==
    (pc = "done" /\ since # None) =>
        \A i \in 1..Len(result) : result[i].visit_time >= since[1]

\* C6: with max_rows = N > 0 the call returns the N most recent qualifying
\* visits of the selected databases of the requested sources (all of them
\* when there are fewer): no visit is returned while a strictly more recent
\* qualifying one is left out.
MostRecentReturned ==
    (pc = "done" /\ Undisturbed /\ max_rows > 0) =>
        LET Q == Qualifying(Requested)
            R == Visits(result)
        IN  /\ R \subseteq Q
            /\ Cardinality(R) = Len(result)
            /\ Len(result) = IF Cardinality(Q) < max_rows THEN Cardinality(Q) ELSE max_rows
            /\ \A q \in Q \ R : \A r \in R : r[3] >= q[3]

\* C7: max_rows = 0 returns every qualifying visit of every requested
\* source.
ZeroMeansNoCap ==
    (pc = "done" /\ Undisturbed /\ max_rows = 0) => Visits(result) = Qualifying(Requested)

\* C8: names are matched without regard to case; the readers called are
\* exactly those of the known families among the requested names, whatever
\* other names are given; a request without a known name performs no
\* discovery, copy or query and returns the empty list.
NamesMatched ==
    /\ called \subseteq Requested
    /\ scanned \subseteq Requested
    /\ SourcesOf(entries) \subseteq Requested
    /\ {op.src : op \in fileOps} \subseteq Requested
    /\ pc = "done" => called = Requested /\ SourcesOf(result) \subseteq Requested
    /\ Requested = {} =>
          /\ fileOps = {}
          /\ tmpSeq = 0
          /\ raised = "none"
          /\ pc = "done" => result = <<>>

\* C8 witness: a request in capitals next to an unknown name is answered
\* with the records of the known family.
NamesMatchedWitness ==
    /\ pc = "done"
    /\ browsers = {"CHROME", "Netscape"}
    /\ SourcesOf(result) = {"chrome"}
    /\ called = {"chrome"}

\* The History files directly below the profile directories of a base.
HistoryUnder(base) ==
    {f \in DOMAIN files : IsPrefix(base, f) /\ Len(f) = Len(base) + 2 /\ f[Len(f)] = "History"}

Copied(s) == {op.path : op \in {x \in fileOps : x.op = "copy2" /\ x.src = s}}

\* The file a Chromium-family reader has to read: the first existing
\* well-known path; else, in the first base that holds a History file, the
\* first standard profile that has one, or another of its profiles.
RightChromiumFile(s) ==
    LET known == KNOWN_HISTORY_PATHS(environ, s)
        hits == {i \in 1..Len(known) : known[i] \in DOMAIN files}
        bases == candidate_bases(environ, s)
        live == {i \in 1..Len(bases) : bases[i] # None /\ HistoryUnder(bases[i][1]) # {}}
    IN  IF hits # {}
        THEN Copied(s) = {known[Min(hits)]} /\ s \notin scanned
        ELSE /\ s \in scanned
             /\ IF live = {} THEN Copied(s) = {}
                ELSE LET base == bases[Min(live)][1]
                         std == {j \in 1..Len(profile_names) :
                                    base \o <<profile_names[j], "History">> \in DOMAIN files}
                     IN  \E p \in HistoryUnder(base) :
                            /\ Copied(s) = {p}
                            /\ std # {} => p = base \o <<profile_names[Min(std)], "History">>

\* C9: a Chromium-family reader reads one database file, the first existing
\* well-known path or, only when there is none, the first candidate of the
\* fallback scan; its records come from that file alone.
OneChromiumFile ==
    \A s \in {"chrome", "edge"} :
        /\ Cardinality(Copied(s)) <= 1
        /\ (s \in called /\ source # s) => RightChromiumFile(s)
        /\ \A i \in 1..Len(entries) :
              entries[i].source = s =>
                 \E p \in Copied(s) : \E r \in files[p].rows : r.url = entries[i].url

\* C9 witness: two History files of chrome exist outside the well-known
\* paths, the scan ran, and the records returned are those of one file.
OneChromiumFileWitness ==
    /\ pc = "done"
    /\ "chrome" \in scanned
    /\ Cardinality({f \in DOMAIN files : \E p \in Copied("chrome") :
                       SubSeq(f, 1, 3) = SubSeq(p, 1, 3)}) = 2
    /\ Cardinality(Copied("chrome")) = 1
    /\ SourcesOf(result) = {"chrome"}

\* C10: the Firefox reader returns the records of the first profile, in
\* file order, whose places database is readable; earlier profiles whose
\* database is missing or not readable do not stand in its way.  (Stated
\* for hosts whose files can all be copied: a database that cannot be
\* copied is the case of C3.)
FirstReadableProfile ==
    LET ini == firefox_profiles_ini(files, environ)
        dirs == IF ini = None THEN <<>> ELSE parse_profile_dirs(files[ini[1]].lines)
        Readable(i) == /\ firefox_db_path(files, environ, dirs[i]) # None
                       /\ files[firefox_db_path(files, environ, dirs[i])[1]].kind = "db"
        ok == {i \in 1..Len(dirs) : Readable(i)}
    IN  IF ok = {} THEN None ELSE firefox_db_path(files, environ, dirs[Min(ok)])

FirefoxReadsFirstReadable ==
    ( /\ pc \in {"sort", "done", "raised"}
      /\ "firefox" \in called
      /\ Undisturbed
      /\ \A f \in DOMAIN files : files[f].kind # "unreadable"
      /\ FirstReadableProfile # None
      /\ since = None
      /\ max_rows >= MaxDbRows )
    => /\ raised = "none"
       /\ {v \in Visits(entries) : v[1] = "firefox"}
            = {<<"firefox", r.url, r.ts>> : r \in files[FirstReadableProfile[1]].rows}

\* The fields of a URL's query string that carry the name `key`, and those
\* among them with a non-blank value.
Occurs(url, key) == {i \in 1..Len(url.query) : unquote_plus(url.query[i].k) = key}

NonBlank(url, key) == {i \in Occurs(url, key) : url.query[i].v # ""}

SearchKeys == <<"q", "query", "text">>

\* C11: for every URL of every source, no error comes of extracting the
\* query, and the record's query is the first value of the first of q,
\* query, text that is present in the URL's query string, absent when none
\* is present; a present key wins over the keys after it even when its own
\* values are blank (the record then carries no query).
FirstPresentKeyWins ==
    /\ raised # "ValueError"
    /\ \A i \in 1..Len(entries) :
          LET url == entries[i].url
              present == {j \in 1..Len(SearchKeys) : Occurs(url, SearchKeys[j]) # {}}
          IN  IF present = {} THEN entries[i].query = NoStr
              ELSE LET vals == NonBlank(url, SearchKeys[Min(present)])
                   IN  IF vals = {} THEN entries[i].query \in {NoStr, ""}
                       ELSE entries[i].query = unquote_plus(url.query[Min(vals)].v)

\* C12: a datetime turned into Chromium ticks and back is the same datetime
\* within one microsecond, for every datetime from 1601-01-01 on.
ChromiumRoundTrip ==
    (conv.family = "chromium" /\ conv.back # None) =>
        conv.back[1] - conv.value \in (0 - 1)..1

\* C13: a datetime turned into Firefox ticks and back is the same datetime
\* within one microsecond, whatever the UTC offset of the host.
FirefoxRoundTrip ==
    (conv.family = "firefox" /\ conv.back # None) =>
        conv.back[1] - conv.value \in (0 - 1)..1

\* C14: when the database of a requested source cannot be copied, no
\* exception escapes, every requested source is still read, the failing
\* source contributes nothing and the others contribute their visits.
CopyFailureContained ==
    ( /\ pc \in {"done", "raised"}
      /\ Undisturbed
      /\ \E s \in Requested : KindOf(s) = "unreadable" )
    => /\ pc = "done"
       /\ raised = "none"
       /\ called = Requested
       /\ \A s \in SourcesOf(entries) : KindOf(s) = "db"
       /\ (since = None /\ max_rows >= MaxDbRows) => Visits(entries) = Qualifying(Requested)

\* C15: a call with a negative max_rows never returns a list of records.
NegativeMaxRowsFails == max_rows < 0 => pc # "done"

\* C16: all records returned by one call carry the same ip, whatever the
\* probe reports from one reader to the next.
UniformIp ==
    pc = "done" => \A i, j \in 1..Len(result) : result[i].ip = result[j].ip

\* The visits a call without since returns: the max_rows most recent of the
\* well-formed selected databases, all of them when there are fewer.
ReturnsMostRecent ==
    LET Q == Qualifying(Requested)
        R == Visits(result)
    IN  /\ R \subseteq Q
        /\ Cardinality(R) = Len(result)
        /\ Len(result) = IF Cardinality(Q) < max_rows THEN Cardinality(Q) ELSE max_rows
        /\ \A q \in Q \ R : \A r \in R : r[3] >= q[3]

\* C17: a failing probe raises nothing; the call returns the records it
\* returns on a host whose probe succeeds, each without ip.
ProbeFailureSwallowed ==
    /\ raised # "OSError"
    /\ network = "down" => \A i \in 1..Len(entries) : entries[i].ip = NoStr
    /\ (pc = "done" /\ Undisturbed /\ since = None /\ max_rows > 0) => ReturnsMostRecent

\* C17 witness: the probe fails and the records of three sources are
\* returned without ip.
ProbeFailureWitness ==
    /\ pc = "done"
    /\ network = "down"
    /\ SourcesOf(result) = {"chrome", "edge", "firefox"}
    /\ \A i \in 1..Len(result) : result[i].ip = NoStr

\* C18: fetch_browser_history runs only after the consent step and only
\* with the browser_history consent granted; with the consent declined
\* nothing is extracted, ctx.history stays empty, save_browser_history is
\* never called, the store keeps what it held and entries_saved stays 0.
BrowserHistoryGranted ==
    /\ "browser_history" \in DOMAIN ctx.consents
    /\ ctx.consents["browser_history"]

ExtractionTouched == pc # "idle" \/ fileOps # {} \/ tmpSeq # 0 \/ called # {}

ConsentGatesExtraction ==
    /\ ExtractionTouched =>
          /\ step \notin {"consent", "ingest"}
          /\ BrowserHistoryGranted
          /\ \E i \in 1..Len(audit) :
                audit[i] = Event("consent", <<"browser_history", "granted">>)
    /\ (step # "consent" /\ ~BrowserHistoryGranted) =>
          /\ ~ExtractionTouched
          /\ ctx.history = <<>>
          /\ ctx.entries_saved = 0
          /\ calls = <<>>
          /\ store \in {FreshStore, PriorStore}

\* C18 witness: a run ended with the consent declined on a host whose
\* browsers hold visits, the store still holding the earlier export.
ConsentDeclinedWitness ==
    /\ step = "end"
    /\ ~BrowserHistoryGranted
    /\ files # FileMap({})
    /\ store = PriorStore

SourceOnlyCopied ==
    [][ /\ files' = files
        /\ \A op \in fileOps' :
              /\ op.op \in {"mkstemp", "copy2", "connect_ro", "unlink", "read_text"}
              /\ op.path # <<>> => op.op \in {"copy2", "read_text"}
              /\ op.op = "read_text" => op.path[Len(op.path)] = "profiles.ini"
              /\ op.op = "copy2" => /\ op.path \in DOMAIN files
                                    /\ op.tmp \in 1..tmpSeq'
              /\ op.op = "connect_ro" => /\ op.path = <<>>
                                         /\ op.tmp \in 1..tmpSeq'
        /\ (pc' \in {"c_query", "f_query"} /\ Undisturbed) =>
              /\ temp_path' \in DOMAIN temps'
              /\ temps'[temp_path'] = files'[db_path'[1]]
      ]_vars

\* C20 witness: records were returned after a database was copied and the
\* copy queried, and a file that is not a database was copied as well.
SourceOnlyCopiedWitness ==
    /\ pc = "done"
    /\ result # <<>>
    /\ \E op \in fileOps : op.op = "copy2" /\ files[op.path].kind = "db"
    /\ \E op \in fileOps : op.op = "connect_ro"
    /\ \E op \in fileOps : op.op = "copy2" /\ files[op.path].kind # "db"

\* The place of a source in the order of fetch_browser_history.
Rank(s) == CASE s = "chrome" -> 1 [] s = "edge" -> 2 [] OTHER -> 3

Made == {op \in fileOps : op.op = "mkstemp"}

\* C21: the sources are read one after another in the order chrome, edge,
\* firefox, whatever names were requested: temporary files are created in
\* that order, one per source at most, each only after every earlier one
\* was unlinked and its reader has ended, and at no point of the call does
\* more than one temporary file exist.
SequentialSources ==
    /\ Cardinality(DOMAIN temps) <= 1
    /\ DOMAIN temps \subseteq {temp_path}
    /\ \A a \in Made : \A b \in Made : a.tmp < b.tmp => Rank(a.src) < Rank(b.src)
    /\ \A a \in Made : \A k \in 1..(a.tmp - 1) :
          \E u \in fileOps : u.op = "unlink" /\ u.tmp = k
    /\ source # NoStr => \A op \in fileOps : Rank(op.src) <= Rank(source)
    /\ pc = "edge" => \A op \in fileOps : op.src = "chrome"
    /\ pc = "firefox" => \A op \in fileOps : op.src \in {"chrome", "edge"}

\* C21 witness: the three sources were requested and each got its
\* temporary file, in the order chrome, edge, firefox; the third is in use
\* and the first two are gone.
SequentialSourcesWitness ==
    /\ pc = "f_query"
    /\ {op.src : op \in Made} = {"chrome", "edge", "firefox"}
    /\ DOMAIN temps = {3}
    /\ \E op \in Made : op.src = "chrome" /\ op.tmp = 1
    /\ \E op \in Made : op.src = "firefox" /\ op.tmp = 3

\* The data rows of the CSV export of a store.
CsvData(st) == IF st.csv = None \/ st.csv[1] = <<>> THEN <<>> ELSE Tail(st.csv[1])

\* C22: a call of save_browser_history with n > 0 records returns n, adds n
\* rows at the end of the table and n data rows at the end of the CSV and
\* leaves the earlier rows as they were; a call with an empty list returns
\* 0 and leaves the table, the CSV and the HTML files unchanged; the table
\* and the CSV hold the same number of records after every call.
AppendOnly ==
    [][ Len(calls') = Len(calls) + 1 =>
          LET call == calls'[Len(calls')]
              n == call.given
          IN  /\ call.raises = "none"
              /\ call.value = n
              /\ Len(store'.table) = Len(store.table) + n
              /\ SubSeq(store'.table, 1, Len(store.table)) = store.table
              /\ Len(CsvData(store')) = Len(CsvData(store)) + n
              /\ SubSeq(CsvData(store'), 1, Len(CsvData(store))) = CsvData(store)
              /\ n = 0 => store' = store
              /\ Len(store'.table) = Len(CsvData(store'))
      ]_vars

\* The place of an audit event in a pipeline run.
Phase(e) ==
    CASE e.event = "consent" -> 1
      [] e.event = "ingest_start" -> 2
      [] e.event = "ingest_end" -> 3
      [] e.event = "store_start" -> 4
      [] e.event = "store_end" -> 5
      [] e.event = "ui_notify" -> 6
      [] e.event = "analysis_start" -> 7
      [] e.event = "analysis_end" -> 8
      [] OTHER -> 9

Logged(ev) == {i \in 1..Len(audit) : audit[i].event = ev}

\* The latest phase the audit log may show while `step` is the next to run.
PhaseBefore(st) ==
    CASE st = "consent" -> 0
      [] st = "ingest" -> 1
      [] st = "fetching" -> 2
      [] st = "store" -> 3
      [] st = "ui" -> 5
      [] st = "analysis" -> 6
      [] OTHER -> 8

\* C23: the steps run in the order consent, ingest, store, ui, analysis and
\* the audit log shows it: consent events, ingest_start, ingest_end,
\* store_start, store_end, ui_notify, analysis_start, analysis_end, each
\* after the first kind at most once and never before an earlier one; the
\* store step saves only a non-empty fetched history, and after it
\* entries_saved is the number of records fetched; the analysis step works
\* only with the LlamaIndex consent, which is asked only after the
\* browser_history consent was granted.
PipelineOrder ==
    /\ \A i \in 1..Len(audit) : \A j \in 1..Len(audit) :
          i < j => Phase(audit[i]) <= Phase(audit[j])
    /\ \A i \in 1..Len(audit) :
          /\ Phase(audit[i]) <= PhaseBefore(step)
          /\ Phase(audit[i]) > 1 => Cardinality(Logged(audit[i].event)) = 1
    /\ step = "fetching" => Logged("ingest_start") # {}
    /\ Logged("ingest_end") # {} =>
          /\ Logged("ingest_start") # {}
          /\ pc = "done"
          /\ ctx.history = result
          /\ audit[CHOOSE i \in Logged("ingest_end") : TRUE].detail
                = <<"browser_history_count", Len(result)>>
    /\ Logged("store_start") # {} <=> calls # <<>>
    /\ Logged("store_end") # {} => Logged("store_start") # {}
    /\ calls # <<>> =>
          /\ Len(calls) = 1
          /\ Logged("ingest_end") # {}
          /\ ctx.history # <<>>
          /\ calls[1].given = Len(ctx.history)
    /\ step \in {"ui", "analysis", "end"} =>
          /\ ctx.entries_saved = Len(ctx.history)
          /\ BrowserHistoryGranted => Logged("ingest_end") # {}
          /\ ctx.history # <<>> => Logged("store_end") # {}
    /\ step \in {"analysis", "end"} =>
          \E i \in Logged("ui_notify") :
             audit[i].detail = <<"entries saved", Len(ctx.history)>>
    /\ (Logged("analysis_start") # {} \/ ctx.llm_analysis_result # NoStr) =>
          ctx.analyze_with_llamaindex
    /\ Logged("analysis_end") # {} => Logged("analysis_start") # {}
    /\ (step = "end" /\ ctx.analyze_with_llamaindex) => Logged("analysis_end") # {}
    /\ ctx.analyze_with_llamaindex => BrowserHistoryGranted
    /\ \A i \in 1..Len(audit) :
          (audit[i].event = "consent" /\ audit[i].detail[1] = "llamaindex_analysis") =>
             \E j \in 1..(i - 1) :
                audit[j] = Event("consent", <<"browser_history", "granted">>)

\* C23 witness: a run went through all five steps, fetched and saved
\* records, and the analysis produced a text; the log holds the eight kinds
\* of event.
PipelineOrderWitness ==
    /\ step = "end"
    /\ ctx.entries_saved > 0
    /\ ctx.llm_analysis_result = "summary"
    /\ {audit[i].event : i \in 1..Len(audit)}
          = {"consent", "ingest_start", "ingest_end", "store_start", "store_end",
             "ui_notify", "analysis_start", "analysis_end"}
    /\ Len(audit) = 11

====
